---- MODULE Spec2Model ----
(***************************************************************************)
(* Model of install.py, the universal MCP server installer.                *)
(*                                                                         *)
(* The state is the filesystem the installer works on (one configuration   *)
(* path per client, plus the two uv binaries get_uv_command probes), the   *)
(* parsed command line, and the position of main().  A configuration file  *)
(* is kept as the JSON value json.load would return for it, or as one of   *)
(* the ways the load can go wrong.                                         *)
(***************************************************************************)
EXTENDS Integers, Sequences, FiniteSets

VARIABLES
    fs,            \* client -> [dir, file]: parent directory exists, file content
    homebrewUv,    \* /opt/homebrew/bin/uv exists
    localUv,       \* /usr/local/bin/uv exists
    pc,            \* position of main()
    yes,           \* args.yes
    clients,       \* args.clients as a set ({} when the option is not given)
    server_name,   \* args.server_name
    script_dir,    \* Path(__file__).parent.absolute()
    target,        \* target_clients, in iteration order
    idx,           \* position of the for loop in target
    installed_to,  \* installed_to
    prompts,       \* number of input() calls made so far
    exit_code,     \* exit status of the process (-1 while it runs)
    touched,       \* clients whose directory or file has been read or written
    processed,     \* log: clients the loop has handled, in order
    failed,        \* log: clients whose install_to_client returned False
    skipped,       \* log: clients the loop skipped
    invalid,       \* log: answers to the prompt that were neither yes nor no
    fs0,           \* log: the filesystem as the process found it
    hist           \* log of direct install_to_client calls (SpecMerge)

vars == <<fs, homebrewUv, localUv, pc, yes, clients, server_name, script_dir,
          target, idx, installed_to, prompts, exit_code, touched, processed,
          failed, skipped, invalid, fs0, hist>>

-----------------------------------------------------------------------------
(* Bounds of the model *)

\* longest pre-existing Windsurf `servers` list
MaxLen == 2
\* direct install_to_client calls in one behaviour of SpecMerge
MaxInstalls == 2
\* client paths that are not in the pristine state (no directory) at start
MaxPrepared == 1
\* largest number of names given to --clients
MaxClientsArg == 1
\* answers to the confirmation prompt that are neither yes nor no
MaxInvalid == 1

-----------------------------------------------------------------------------
(* Program constants *)

SERVER_NAME == "usolver"
SERVER_EXECUTABLE == "usolver_mcp/server/main.py"

\* keys of get_config_paths(), in insertion order
ConfigOrder == <<"claude", "cursor", "vscode", "cline", "windsurf", "n8n", "5ire">>
Clients == {ConfigOrder[i] : i \in 1..Len(ConfigOrder)}
\* the list in main's skip test
OptionalClients == {"cursor", "cline", "n8n", "5ire"}
\* the list in install_to_client's first branch
ClaudeCursorClients == {"claude", "cursor", "cline", "n8n", "5ire"}
\* a client name install_to_client knows no format for
UnknownClient == "zed"

\* values of --server-name used in the model
ServerNames == {SERVER_NAME, "other"}
\* names a servers map may hold: the installable ones and one never installed
KeyNames == ServerNames \cup {"keep"}
\* directories the script may be run from
ScriptDirs == {"/tmp/proj", "/opt/inst"}

-----------------------------------------------------------------------------
(* JSON values *)

\* A JSON object is a function from its keys to values, <<>> being {}.
Put(f, key, v) == [x \in DOMAIN f \cup {key} |-> IF x = key THEN v ELSE f[x]]

\* values of top-level keys
Null == [t |-> "null"]
Opaque(v) == [t |-> "other", v |-> v]        \* a value the installer never looks into
Dict(m) == [t |-> "dict", items |-> m]       \* m: function from names to entries
List(l) == [t |-> "list", items |-> l]       \* l: sequence of entries

\* entries of a servers dict or list: an object is a record of its keys;
\* anything else (null, a number, a string, a list) is Atom
Atom == [atom |-> "null"]
IsDict(e) == "atom" \notin DOMAIN e
\* e.get("name") == name
HasName(e, name) == "name" \in DOMAIN e /\ e.name = name
\* an entry some earlier installation left: in a dict, and in a list
OldEntry == [command |-> "python", args |-> <<"old.py">>]
OldServer(n) == [name |-> n, command |-> "python", args |-> <<"old.py">>]

\* a file at a configuration path:
\*   kind = "absent"       no file
\*          "unreadable"   open() raises OSError
\*          "undecodable"  bytes that are not text in the locale's encoding
\*          "corrupt"      text that is not JSON
\*          "null", "array"   JSON whose top level is not an object
\*          "object"       a JSON object, with its keys
Plain(kind) == [kind |-> kind]
Object(keys) == [kind |-> "object", keys |-> keys]
NoFile == Plain("absent")
\* Python's None as default_structure
None == Plain("None")

-----------------------------------------------------------------------------
(* load_or_create_config and save_config *)

\* Result of a step that may raise: exc is the exception's type, or "none".
Loaded(exc, doc) == [exc |-> exc, doc |-> doc]

\* json.load returns whatever JSON value the file holds.  OSError and
\* JSONDecodeError are caught and lead to the default; a file whose bytes do
\* not decode raises UnicodeDecodeError, a ValueError the except clause does
\* not name.
load_or_create_config(path, default_structure) ==
    LET default == IF default_structure = None
                   THEN Object(Put(<<>>, "mcpServers", Dict(<<>>)))
                   ELSE default_structure
    IN  CASE path.file.kind = "absent"      -> Loaded("none", default)
          [] path.file.kind = "unreadable"  -> Loaded("none", default)
          [] path.file.kind = "corrupt"     -> Loaded("none", default)
          [] path.file.kind = "undecodable" -> Loaded("UnicodeDecodeError", None)
          [] OTHER                          -> Loaded("none", path.file)

\* Outcome of a function working on one configuration path.
Result(exc, path) == [exc |-> exc, path |-> path]

\* What the filesystem lets a write do:
\*   "ok"         mkdir, open and dump succeed
\*   "mkdir_fail" mkdir raises: nothing changes
\*   "open_fail"  the directory is there, open(.., "w") raises: file untouched
\*   "dump_fail"  open truncated the file, the write raises: unparsable rest
WriteOutcomes == {"ok", "mkdir_fail", "open_fail", "dump_fail"}
\* mkdir(parents=True, exist_ok=True) of a directory that exists does nothing
WriteOutcomesAt(path) == IF path.dir THEN WriteOutcomes \ {"mkdir_fail"}
                         ELSE WriteOutcomes

save_config(path, config_data, wr) ==
    CASE wr = "mkdir_fail" -> Result("OSError", path)
      [] wr = "open_fail"  -> Result("OSError", [path EXCEPT !.dir = TRUE])
      [] wr = "dump_fail"  -> Result("OSError", [dir |-> TRUE, file |-> Plain("corrupt")])
      [] OTHER             -> Result("none", [dir |-> TRUE, file |-> config_data])

\* The first of the probed paths that exists; "uv" always qualifies.
get_uv_command(homebrew, local) ==
    IF homebrew THEN "/opt/homebrew/bin/uv"
    ELSE IF local THEN "/usr/local/bin/uv"
    ELSE "uv"

LaunchArgs(dir) == <<"run", "--directory", dir, SERVER_EXECUTABLE>>

-----------------------------------------------------------------------------
(* The three formats *)

\* `if key not in config: config[key] = empty`, on a dict
EnsureKey(config, key, empty) ==
    IF key \notin DOMAIN config.keys
    THEN Object(Put(config.keys, key, empty))
    ELSE config

\* config[key][server_name] = server_config, where config[key] is a dict
SetEntryOnly(config, key, name, server_config) ==
    Object(Put(config.keys, key, Dict(Put(<<>>, name, server_config))))
SetEntry(config, key, name, server_config) ==
    Object(Put(config.keys, key, Dict(Put(config.keys[key].items, name, server_config))))

install_to_claude_cursor_format(path, dir, name, uv, wr) ==
    LET ld == load_or_create_config(path, None) IN
    IF ld.exc # "none" THEN Result(ld.exc, path)
    \* `in`, or the item assignment after it, raises on what is no dict
    ELSE IF ld.doc.kind # "object" THEN Result("TypeError", path)
    ELSE
      LET config == EnsureKey(ld.doc, "mcpServers", Dict(<<>>))
          server_config == [command |-> uv, args |-> LaunchArgs(dir)]
      IN  \* item assignment by a string key works on a dict only
          IF config.keys["mcpServers"].t # "dict" THEN Result("TypeError", path)
          ELSE save_config(path, SetEntry(config, "mcpServers", name, server_config), wr)

VSCodeDefault == Object(Put(Put(<<>>, "inputs", List(<<>>)), "servers", Dict(<<>>)))

install_to_vscode_format(path, dir, name, uv, wr) ==
    LET ld == load_or_create_config(path, VSCodeDefault) IN
    IF ld.exc # "none" THEN Result(ld.exc, path)
    ELSE IF ld.doc.kind # "object" THEN Result("TypeError", path)
    ELSE
      LET config == EnsureKey(ld.doc, "servers", Dict(<<>>))
          server_config == [type |-> "stdio", command |-> uv, args |-> LaunchArgs(dir)]
      IN  IF config.keys["servers"].t # "dict" THEN Result("TypeError", path)
          ELSE save_config(path, SetEntry(config, "servers", name, server_config), wr)

WindsurfDefault == Object(Put(<<>>, "servers", List(<<>>)))

\* The scan of lines 197-201 over a list: [exc, found], found = 0 for None.
\* An element that is no dict has no .get; the scan stops at the first match.
RECURSIVE ScanFrom(_, _, _)
ScanFrom(l, name, i) ==
    IF i > Len(l) THEN [exc |-> "none", found |-> 0]
    ELSE IF ~IsDict(l[i]) THEN [exc |-> "AttributeError", found |-> 0]
    ELSE IF HasName(l[i], name) THEN [exc |-> "none", found |-> i]
    ELSE ScanFrom(l, name, i + 1)

ExistingServerLast(l, name) ==
    LET scan == ScanFrom(l, name, 1)
        hits == {i \in 1..Len(l) : IsDict(l[i]) /\ HasName(l[i], name)}
    IN  IF scan.found = 0 THEN scan
        ELSE [scan EXCEPT !.found = CHOOSE i \in hits : \A j \in hits : j <= i]
ExistingServer(l, name) == ScanFrom(l, name, 1)

\* lines 203-206
PutServerAppend(l, existing_server, server_config) == Append(l, server_config)
PutServer(l, existing_server, server_config) ==
    IF existing_server # 0 THEN [l EXCEPT ![existing_server] = server_config]
    ELSE Append(l, server_config)

install_to_windsurf_format(path, dir, name, uv, wr) ==
    LET ld == load_or_create_config(path, WindsurfDefault) IN
    IF ld.exc # "none" THEN Result(ld.exc, path)
    ELSE IF ld.doc.kind # "object" THEN Result("TypeError", path)
    ELSE
      LET config == EnsureKey(ld.doc, "servers", List(<<>>))
          server_config == [name |-> name, command |-> uv, args |-> LaunchArgs(dir)]
          servers == config.keys["servers"]
      IN  CASE servers.t = "list" ->
                 LET scan == ExistingServer(servers.items, name) IN
                 IF scan.exc # "none" THEN Result(scan.exc, path)
                 ELSE save_config(path,
                        Object(Put(config.keys, "servers",
                           List(PutServer(servers.items, scan.found, server_config)))), wr)
            [] servers.t = "dict" ->
                 \* iterating a dict yields its keys, and a string has no
                 \* .get; an empty dict gets to .append, which a dict lacks
                 Result("AttributeError", path)
            [] OTHER -> Result("TypeError", path)   \* enumerate(None)

\* the dispatch of lines 217-224 on the client's name
Dispatch(client_name, path, dir, name, uv, wr) ==
    CASE client_name \in ClaudeCursorClients ->
            install_to_claude_cursor_format(path, dir, name, uv, wr)
      [] client_name = "vscode" ->
            install_to_vscode_format(path, dir, name, uv, wr)
      [] client_name = "windsurf" ->
            install_to_windsurf_format(path, dir, name, uv, wr)
      [] OTHER -> Result("unknown", path)

\* install_to_client without its try/except: the exception leaves the function
install_to_client_uncaught(client_name, path, dir, name, uv, wr) ==
    LET r == Dispatch(client_name, path, dir, name, uv, wr)
    IN  [success |-> r.exc = "none", exc |-> r.exc, path |-> r.path,
         raised |-> r.exc \notin {"none", "unknown"}]

\* install_to_client: (True, msg), or (False, msg) for an unknown client and
\* for every Exception; nothing is raised to the caller
install_to_client(client_name, path, dir, name, uv, wr) ==
    LET r == Dispatch(client_name, path, dir, name, uv, wr)
    IN  [success |-> r.exc = "none", exc |-> r.exc, path |-> r.path, raised |-> FALSE]

-----------------------------------------------------------------------------
(* Files the model starts from *)

\* every configuration path, and the path handed over with the unknown client
Paths == Clients \cup {UnknownClient}

Pristine == [dir |-> FALSE, file |-> NoFile]
InDir(file) == [dir |-> TRUE, file |-> file]

RECURSIVE SeqsUpTo(_, _)
SeqsUpTo(S, n) ==
    IF n = 0 THEN {<<>>}
    ELSE LET shorter == SeqsUpTo(S, n - 1)
         IN  shorter \cup {Append(l, e) : l \in {x \in shorter : Len(x) = n - 1}, e \in S}

PlainKinds == {"unreadable", "undecodable", "corrupt", "null", "array"}

\* servers dicts: a name holds nothing or an entry written before; the
\* default name may also hold a value that is no object
Maps == {m \in UNION {[S -> {OldEntry, Atom}] : S \in SUBSET KeyNames} :
            \A n \in DOMAIN m : m[n] = Atom => n = SERVER_NAME}
\* servers lists: records with a name or without one, and non-records
Elems == {OldServer(n) : n \in ServerNames} \cup {OldEntry, Atom}
Lists == SeqsUpTo(Elems, MaxLen)

\* the key the client's format works on, and the key of the other formats
OwnKey(c) == IF c \in ClaudeCursorClients THEN "mcpServers" ELSE "servers"
ForeignKey(c) == IF c \in ClaudeCursorClients THEN "servers" ELSE "mcpServers"

\* what may sit under the client's key: the container of its format, the
\* container of the other format, or null
DictValues == {Null, List(<<>>)} \cup {Dict(m) : m \in Maps}
ListValues == {Null, Dict(<<>>), Dict(Put(<<>>, "keep", OldEntry))}
                 \cup {List(l) : l \in Lists}
OwnValues(c) == IF c = "windsurf" THEN ListValues ELSE DictValues

\* the rest of an object: nothing, or other top-level keys and the servers
\* key of the other formats
Rests(c) ==
    {<<>>,
     Put(Put(Put(<<>>, "inputs", List(<<>>)), "theme", Opaque("dark")),
         ForeignKey(c),
         IF c \in ClaudeCursorClients THEN List(<<OldServer("keep")>>)
         ELSE Dict(Put(<<>>, "keep", OldEntry)))}

ObjectsFor(c) == {Object(r) : r \in Rests(c)}
                    \cup {Object(Put(r, OwnKey(c), v)) : r \in Rests(c), v \in OwnValues(c)}

FilesFor(c) == {NoFile} \cup {Plain(kd) : kd \in PlainKinds} \cup ObjectsFor(c)
PathsFor(c) == IF c = UnknownClient THEN {Pristine}
               ELSE {Pristine} \cup {InDir(f) : f \in FilesFor(c)}

-----------------------------------------------------------------------------
(* Direct calls of install_to_client, one configuration path at a time *)

\* One client (or the unknown one), its path in any of the states the model
\* knows, every other path untouched, and some set of uv binaries.
InitMerge ==
    /\ \E c \in Paths :
         /\ clients = {c}
         /\ \E p \in PathsFor(c) : fs = [x \in Paths |-> IF x = c THEN p ELSE Pristine]
    /\ homebrewUv \in BOOLEAN
    /\ localUv \in BOOLEAN
    /\ pc = "merge"
    /\ yes = TRUE
    /\ server_name = SERVER_NAME
    /\ script_dir = "/tmp/proj"
    /\ target = <<>>
    /\ idx = 1
    /\ installed_to = <<>>
    /\ prompts = 0
    /\ exit_code = -1
    /\ touched = {}
    /\ processed = <<>>
    /\ failed = <<>>
    /\ skipped = <<>>
    /\ invalid = 0
    /\ fs0 = fs
    /\ hist = <<>>

\* One call install_to_client(c, path of c, dir, name) for the client the
\* behaviour is about; the log keeps the arguments, the path as it was found
\* and the result.
MergeInstall(c, name, dir, wr) ==
    /\ pc = "merge"
    /\ c \in clients
    /\ Len(hist) < MaxInstalls
    /\ wr \in WriteOutcomesAt(fs[c])
    /\ LET uv == get_uv_command(homebrewUv, localUv)
           r == install_to_client(c, fs[c], dir, name, uv, wr)
       IN  /\ fs' = [fs EXCEPT ![c] = r.path]
           /\ hist' = Append(hist, [client |-> c, name |-> name, command |-> uv,
                                    args |-> LaunchArgs(dir), before |-> fs[c],
                                    success |-> r.success, exc |-> r.exc])
    /\ touched' = touched \cup {c}
    /\ UNCHANGED <<homebrewUv, localUv, pc, yes, clients, server_name, script_dir,
                   target, idx, installed_to, prompts, exit_code, processed, failed,
                   skipped, invalid, fs0>>

NextMerge == \E c \in Paths, name \in ServerNames, dir \in ScriptDirs, wr \in WriteOutcomes :
                MergeInstall(c, name, dir, wr)

SpecMerge == InitMerge /\ [][NextMerge]_vars

-----------------------------------------------------------------------------
(* main() *)

\* a configuration some other server was installed into before
SampleDoc(c) ==
    Object(Put(Put(<<>>, "theme", Opaque("dark")), OwnKey(c),
               IF c = "windsurf" THEN List(<<OldServer("other")>>)
               ELSE Dict(Put(<<>>, "keep", OldEntry))))

\* states of a client's path other than "no directory"
PreparedStates == {"empty", "array", "sample"}
Prepared(c, state) ==
    CASE state = "empty" -> InDir(NoFile)
      [] state = "array" -> InDir(Plain("array"))
      [] OTHER           -> InDir(SampleDoc(c))

\* A machine on which at most MaxPrepared clients have their directory, with
\* no file, a file that is a JSON array, or a configuration in use.
Init ==
    /\ \E prepared \in {S \in SUBSET Clients : Cardinality(S) <= MaxPrepared} :
         \E state \in [prepared -> PreparedStates] :
            fs = [c \in Paths |-> IF c \in prepared THEN Prepared(c, state[c])
                                  ELSE Pristine]
    \* uv is found on the PATH, or also in /usr/local/bin
    /\ homebrewUv = FALSE
    /\ localUv \in BOOLEAN
    /\ pc = "start"
    /\ yes = FALSE
    /\ clients = {}
    /\ server_name = SERVER_NAME
    /\ script_dir = "/tmp/proj"
    /\ target = <<>>
    /\ idx = 1
    /\ installed_to = <<>>
    /\ prompts = 0
    /\ exit_code = -1
    /\ touched = {}
    /\ processed = <<>>
    /\ failed = <<>>
    /\ skipped = <<>>
    /\ invalid = 0
    /\ fs0 = fs
    /\ hist = <<>>

\* config_paths filtered by `name in args.clients`, in config_paths' order
RECURSIVE Filter(_, _)
Filter(order, S) ==
    IF order = <<>> THEN <<>>
    ELSE IF Head(order) \in S THEN <<Head(order)>> \o Filter(Tail(order), S)
    ELSE Filter(Tail(order), S)

TargetClients(cl) == IF cl # {} THEN Filter(ConfigOrder, cl) ELSE ConfigOrder

\* --list-clients: list_clients() looks at every parent directory and returns
ListClients ==
    /\ pc = "start"
    /\ pc' = "listed"
    /\ exit_code' = 0
    /\ touched' = Clients
    /\ UNCHANGED <<fs, homebrewUv, localUv, yes, clients, server_name, script_dir,
                   target, idx, installed_to, prompts, processed, failed, skipped,
                   hist, invalid, fs0>>

\* line 333: the prompt is asked unless --yes was given
AfterStartAlwaysAsk(y) == "confirm"
AfterStart(y) == IF y THEN "install" ELSE "confirm"

\* parse_arguments and lines 308-333
Start(cl, name, y) ==
    /\ pc = "start"
    /\ clients' = cl
    /\ server_name' = name
    /\ yes' = y
    /\ target' = TargetClients(cl)
    /\ pc' = AfterStart(y)
    /\ UNCHANGED <<fs, homebrewUv, localUv, script_dir, idx, installed_to, prompts,
                   exit_code, touched, processed, failed, skipped, hist, invalid,
                   fs0>>

\* what the user may type, and input(...).lower().strip() of it
Typed == {"y", "Yes ", " N", "no", "maybe", ""}
LowerStrip(raw) ==
    CASE raw = "y"    -> "y"
      [] raw = "Yes " -> "yes"
      [] raw = " N"   -> "n"
      [] raw = "no"   -> "no"
      [] raw = "maybe" -> "maybe"
      [] OTHER        -> ""

\* lines 370-381: the status main ends with after the loop
ExitStatusInverted(installed) == IF installed # <<>> THEN 1 ELSE 0
ExitStatus(installed) == IF installed # <<>> THEN 0 ELSE 1

\* the status of sys.exit after "Installation cancelled."
CancelStatusFailure == ExitStatus(<<>>)
CancelStatus == 0

\* one pass of the while loop of lines 334-346
Confirm(raw) ==
    /\ pc = "confirm"
    /\ prompts' = prompts + 1
    /\ LET response == LowerStrip(raw) IN
       CASE response \in {"y", "yes"} ->
              /\ pc' = "install"
              /\ UNCHANGED <<exit_code, invalid>>
         [] response \in {"n", "no"} ->
              /\ pc' = "cancelled"
              /\ exit_code' = CancelStatus
              /\ UNCHANGED invalid
         [] OTHER ->
              /\ invalid < MaxInvalid
              /\ invalid' = invalid + 1
              /\ UNCHANGED <<pc, exit_code>>
    /\ UNCHANGED <<fs, homebrewUv, localUv, yes, clients, server_name, script_dir,
                   target, idx, installed_to, touched, processed, failed, skipped,
                   hist, fs0>>

\* input() at end of input raises EOFError, which nothing catches
ConfirmEOF ==
    /\ pc = "confirm"
    /\ prompts' = prompts + 1
    /\ pc' = "crashed"
    /\ exit_code' = 1
    /\ UNCHANGED <<fs, homebrewUv, localUv, yes, clients, server_name, script_dir,
                   target, idx, installed_to, touched, processed, failed, skipped,
                   hist, invalid, fs0>>

\* the test of lines 354-357
ShouldSkipMissing(c, path) == ~path.dir
ShouldSkip(c, path) == c \in OptionalClients /\ ~path.dir

SkipClient ==
    /\ pc = "install"
    /\ idx <= Len(target)
    /\ LET c == target[idx] IN
         /\ ShouldSkip(c, fs[c])
         /\ skipped' = Append(skipped, c)
         /\ processed' = Append(processed, c)
         /\ touched' = touched \cup {c}
    /\ idx' = idx + 1
    /\ UNCHANGED <<fs, homebrewUv, localUv, pc, yes, clients, server_name,
                   script_dir, target, installed_to, prompts, exit_code, failed,
                   hist, invalid, fs0>>

\* lines 361-367 for one client; an exception leaving install_to_client
\* would leave main as well and end the process with status 1
InstallClient(wr) ==
    /\ pc = "install"
    /\ idx <= Len(target)
    /\ LET c == target[idx]
           r == install_to_client(c, fs[c], script_dir, server_name,
                                  get_uv_command(homebrewUv, localUv), wr)
       IN  /\ ~ShouldSkip(c, fs[c])
           /\ wr \in WriteOutcomesAt(fs[c])
           /\ fs' = [fs EXCEPT ![c] = r.path]
           /\ installed_to' = IF r.success THEN Append(installed_to, c) ELSE installed_to
           /\ failed' = IF r.success THEN failed ELSE Append(failed, c)
           /\ processed' = Append(processed, c)
           /\ touched' = touched \cup {c}
           /\ pc' = IF r.raised THEN "crashed" ELSE pc
           /\ exit_code' = IF r.raised THEN 1 ELSE exit_code
    /\ idx' = idx + 1
    /\ UNCHANGED <<homebrewUv, localUv, yes, clients, server_name, script_dir,
                   target, prompts, skipped, hist, invalid, fs0>>

Finish ==
    /\ pc = "install"
    /\ idx > Len(target)
    /\ pc' = "finished"
    /\ exit_code' = ExitStatus(installed_to)
    /\ UNCHANGED <<fs, homebrewUv, localUv, yes, clients, server_name, script_dir,
                   target, idx, installed_to, prompts, touched, processed, failed,
                   skipped, hist, invalid, fs0>>

ClientsArgs == {{}} \cup {S \in SUBSET Clients : Cardinality(S) \in 1..MaxClientsArg}

Next ==
    \/ ListClients
    \/ \E cl \in ClientsArgs, name \in ServerNames, y \in BOOLEAN : Start(cl, name, y)
    \/ \E raw \in Typed : Confirm(raw)
    \/ ConfirmEOF
    \/ SkipClient
    \/ \E wr \in WriteOutcomes : InstallClient(wr)
    \/ Finish

Spec == Init /\ [][Next]_vars


-----------------------------------------------------------------------------
(* Properties of the merge (SpecMerge) *)

\* the last direct call, and the document it left at the client's path
Called == hist # <<>>
Last == hist[Len(hist)]
After == fs[Last.client].file

\* the document a call worked on: the file, or the default put in its place
Skeleton(c) == CASE c = "vscode"   -> VSCodeDefault
                 [] c = "windsurf" -> WindsurfDefault
                 [] OTHER          -> Object(Put(<<>>, "mcpServers", Dict(<<>>)))
Worked(call) == IF call.before.file.kind \in {"absent", "unreadable", "corrupt"}
                THEN Skeleton(call.client)
                ELSE call.before.file

\* the entry a call writes
Written(call) ==
    CASE call.client = "windsurf" ->
            [name |-> call.name, command |-> call.command, args |-> call.args]
      [] call.client = "vscode" ->
            [type |-> "stdio", command |-> call.command, args |-> call.args]
      [] OTHER -> [command |-> call.command, args |-> call.args]

\* positions of the list elements that carry the name
Named(l, name) == {i \in 1..Len(l) : IsDict(l[i]) /\ HasName(l[i], name)}
Min(S) == CHOOSE i \in S : \A j \in S : i <= j
\* number of entries under the name in the servers container of c's format
Count(c, doc, name) ==
    IF doc.kind # "object" \/ OwnKey(c) \notin DOMAIN doc.keys THEN 0
    ELSE LET own == doc.keys[OwnKey(c)] IN
         CASE own.t = "dict" -> IF name \in DOMAIN own.items THEN 1 ELSE 0
           [] own.t = "list" -> Cardinality(Named(own.items, name))
           [] OTHER          -> 0

\* the list with one position left out
Without(l, i) == [j \in 1..(Len(l) - 1) |-> IF j < i THEN l[j] ELSE l[j + 1]]

\* C1: a successful install of name N into a file that held a JSON object
\* writes back an object with the same top-level keys (plus the servers key
\* of the format) in which every other key has its value, and every other
\* server entry is as it was: the other names of the dict, or the other
\* elements of the list in their order.  This holds for each install of a
\* sequence of installs.
C1_OnlyNamedEntryChanges ==
    (Called /\ Last.success /\ Last.before.file.kind = "object") =>
        LET old == Last.before.file.keys
            key == OwnKey(Last.client)
        IN  /\ After.kind = "object"
            /\ DOMAIN After.keys = DOMAIN old \cup {key}
            /\ \A other \in DOMAIN old \ {key} : After.keys[other] = old[other]
            /\ LET was == IF key \in DOMAIN old THEN old[key].items ELSE <<>>
                   now == After.keys[key].items
               IN  IF Last.client = "windsurf"
                   THEN /\ After.keys[key].t = "list"
                        /\ \E i \in 1..Len(now) :
                              /\ now[i] = Written(Last)
                              /\ \/ Without(now, i) = was
                                 \/ /\ i \in Named(was, Last.name)
                                    /\ Without(now, i) = Without(was, i)
                   ELSE /\ After.keys[key].t = "dict"
                        /\ DOMAIN now = DOMAIN was \cup {Last.name}
                        /\ \A n \in DOMAIN was \ {Last.name} : now[n] = was[n]

\* C1 witness: the second of two successful installs, of different names,
\* into a dict that held an unrelated entry beside other top-level keys.
C1_Witness ==
    /\ Len(hist) = 2
    /\ hist[1].success /\ hist[2].success
    /\ hist[1].name # hist[2].name
    /\ hist[1].before.file.kind = "object"
    /\ "theme" \in DOMAIN After.keys
    /\ After.keys[OwnKey(Last.client)].t = "dict"
    /\ DOMAIN After.keys[OwnKey(Last.client)].items = KeyNames
    /\ After.keys[OwnKey(Last.client)].items["keep"] = OldEntry

\* two calls in a row that merged the same name with different command/args
\* into the same path, each writing its document
MergedTwice ==
    /\ Len(hist) >= 2
    /\ LET first == hist[Len(hist) - 1] IN
         /\ first.success /\ Last.success
         /\ first.name = Last.name
         /\ <<first.command, first.args>> # <<Last.command, Last.args>>

\* C2 as claimed: after the same name was merged twice with different
\* command/args, whatever the starting document, exactly one entry is under
\* that name and it carries the command/args of the second merge.
C2_ExactlyOneEntry ==
    MergedTwice =>
        LET own == After.keys[OwnKey(Last.client)] IN
        /\ Count(Last.client, After, Last.name) = 1
        /\ IF own.t = "list"
           THEN \A i \in Named(own.items, Last.name) : own.items[i] = Written(Last)
           ELSE own.items[Last.name] = Written(Last)

\* C2 amended: the second merge adds no entry.  The document holds as many
\* entries under the name as after the first merge: exactly one, unless the
\* starting list already held several elements with that name, which stay;
\* the entry of a dict, and the first such element of a list, carries the
\* command/args of the second merge.
C2_SecondMergeAddsNoEntry ==
    MergedTwice =>
        LET first == hist[Len(hist) - 1]
            c == Last.client
            own == After.keys[OwnKey(c)]
            start == Count(c, Worked(first), Last.name)
            now == Count(c, After, Last.name)
        IN  /\ now = Count(c, Last.before.file, Last.name)
            /\ now = IF start <= 1 THEN 1 ELSE start
            /\ IF own.t = "list"
               THEN own.items[Min(Named(own.items, Last.name))] = Written(Last)
               ELSE own.items[Last.name] = Written(Last)

\* C2 witness: a second merge of the name, with other args, after a first
\* merge that added the name to an object that lacked it.
C2_Witness ==
    /\ MergedTwice
    /\ hist[Len(hist) - 1].before.file.kind = "object"
    /\ Count(Last.client, hist[Len(hist) - 1].before.file, Last.name) = 0
    /\ Count(Last.client, After, Last.name) = 1
    /\ Last.args # hist[Len(hist) - 1].args

\* a list of the data model: every element is a record
AllRecords(l) == \A i \in 1..Len(l) : IsDict(l[i])

\* C3: on a Windsurf document whose servers is a list of records (or is
\* missing), the merge does not fail; when the write goes through, the first
\* element with the name is replaced at its index and the length is
\* unchanged, or, with no such element, the record {name, command, args} is
\* appended and the length grows by one.
C3_ReplaceFirstOrAppend ==
    LET doc == Worked(Last)
        old == IF "servers" \in DOMAIN doc.keys THEN doc.keys["servers"].items ELSE <<>>
        new == After.keys["servers"].items
        hits == Named(old, Last.name)
    IN  (/\ Called
         /\ Last.client = "windsurf"
         /\ doc.kind = "object"
         /\ "servers" \in DOMAIN doc.keys => doc.keys["servers"].t = "list"
         /\ AllRecords(old)
         /\ Last.exc # "OSError") =>
            /\ Last.success
            /\ After.keys["servers"].t = "list"
            /\ IF hits # {}
               THEN /\ Len(new) = Len(old)
                    /\ new = [old EXCEPT ![Min(hits)] = Written(Last)]
               ELSE /\ Len(new) = Len(old) + 1
                    /\ new = Append(old, Written(Last))

\* C3 witness: a merge that appended, then a merge that replaced the first of
\* two elements with the name and left the second alone.
C3_Witness ==
    /\ Len(hist) = 2
    /\ Last.client = "windsurf"
    /\ hist[1].success /\ Last.success
    /\ hist[1].before.file.kind = "object"
    /\ "servers" \in DOMAIN hist[1].before.file.keys
    /\ Len(hist[1].before.file.keys["servers"].items) = 2
    /\ Len(After.keys["servers"].items) = 3
    /\ Named(Last.before.file.keys["servers"].items, Last.name) = {1, 2}
    /\ After.keys["servers"].items[1] = Written(Last)
    /\ After.keys["servers"].items[2] = OldServer(Last.name)

\* C4 as claimed: with no file, or a file that cannot be read or parsed, the
\* install of a known client does not fail for that reason, and the document
\* written is the format's skeleton with the new entry as its only server.
C4_DefaultOnUnusableFile ==
    (/\ Called
     /\ Last.client \in Clients
     /\ Last.before.file.kind \in {"absent", "unreadable", "undecodable", "corrupt"}
     /\ Last.exc # "OSError") =>
        /\ Last.success
        /\ After = Object(Put(Skeleton(Last.client).keys, OwnKey(Last.client),
                              IF Last.client = "windsurf"
                              THEN List(<<Written(Last)>>)
                              ELSE Dict(Put(<<>>, Last.name, Written(Last)))))

\* C10 as claimed: on a file that holds valid JSON the merge signals no
\* failure, and the servers container then has the format's type and holds
\* the name.
C10_ContainerEnsured ==
    (/\ Called
     /\ Last.client \in Clients
     /\ Last.before.file.kind \in {"null", "array", "object"}
     /\ Last.exc # "OSError") =>
        /\ Last.success
        /\ After.keys[OwnKey(Last.client)].t =
              IF Last.client = "windsurf" THEN "list" ELSE "dict"
        /\ Count(Last.client, After, Last.name) >= 1

-----------------------------------------------------------------------------
(* Properties of main() (Spec) *)

Range(q) == {q[i] : i \in 1..Len(q)}
NoRepeat(q) == \A i, j \in 1..Len(q) : q[i] = q[j] => i = j
InLoop == pc \in {"install", "finished"}

\* C5: the loop handles the target clients one by one in their order, each
\* exactly once: a handled client is skipped, installed or failed, never two
\* of these and never twice.  A failed install only adds the client to the
\* failures: the run goes on with the next client, and at the end every
\* target client has been handled.
C5_EachClientOnceFailuresIsolated ==
    /\ NoRepeat(target)
    /\ processed = SubSeq(target, 1, Len(processed))
    /\ Len(installed_to) + Len(failed) + Len(skipped) = Len(processed)
    /\ Range(installed_to) \cup Range(failed) \cup Range(skipped) = Range(processed)
    /\ InLoop => Len(processed) = idx - 1
    /\ failed # <<>> => InLoop
    /\ pc = "finished" => processed = target

\* C5 witness: a finished run in which a client failed and a later client was
\* installed.
C5_Witness ==
    /\ pc = "finished"
    /\ \E i, j \in 1..Len(target) :
          /\ i < j
          /\ target[i] \in Range(failed)
          /\ target[j] \in Range(installed_to)

\* C6: once the loop is entered the run can only end by finishing the loop,
\* and then with status 0 exactly when a client was installed.
C6_ExitZeroIffInstalled ==
    /\ processed # <<>> => InLoop
    /\ pc = "install" => exit_code = -1
    /\ pc = "finished" => (exit_code = 0 <=> installed_to # <<>>)
    /\ pc = "finished" => exit_code \in {0, 1}

\* C6 witness: a run that finished with status 0 although a client failed.
C6_Witness ==
    /\ pc = "finished"
    /\ exit_code = 0
    /\ failed # <<>>
    /\ installed_to # <<>>

\* C7 as claimed: after the user declined, the exit status is not zero and
\* the filesystem is as the process found it.
C7_DeclineExitsNonZero ==
    pc = "cancelled" => (exit_code # 0 /\ fs = fs0 /\ touched = {})

\* C7 amended: after the user declined, the exit status is zero, and no
\* client's directory or file has been read, created or modified.
C7_DeclineExitsZeroUntouched ==
    pc = "cancelled" =>
        /\ exit_code = 0
        /\ fs = fs0
        /\ touched = {}
        /\ processed = <<>>
        /\ ~yes /\ prompts >= 1

\* C7 witness: the user declined.
C7_Witness == pc = "cancelled" /\ prompts = invalid + 1

\* C8 as claimed: the confirmation is requested at most once whatever the
\* answers, never with --yes, and only while no client has been touched.
C8_AskedAtMostOnce ==
    /\ prompts <= 1
    /\ yes => prompts = 0
    /\ pc = "confirm" => touched = {}

\* C8 amended: the confirmation is requested once, and once more after each
\* answer that is neither y/yes nor n/no; never with --yes; and every request
\* is made while no client's directory or file has been read or written.
C8_AskedUntilAnsweredBeforeAnyClient ==
    [][prompts' # prompts =>
          /\ prompts' = prompts + 1
          /\ prompts = invalid
          /\ ~yes
          /\ touched = {} /\ touched' = {}
          /\ fs' = fs0]_vars

\* C8 witness: a run that asked twice, the first answer being neither yes nor
\* no, and then installed.
C8_Witness ==
    /\ prompts = 2
    /\ invalid = 1
    /\ pc = "finished"
    /\ installed_to # <<>>

\* C9: a handled client was skipped exactly if it is one of cursor, cline,
\* n8n, 5ire and its directory was missing; then its path is as it was and it
\* counts neither as installed nor as failed.  Every other handled client
\* went through install_to_client and counts as installed or as failed; when
\* installed, its directory exists (created if it was missing) and its file
\* holds the written object.
C9_SkipOnlyOptionalWithoutDirectory ==
    \A c \in Range(processed) :
        /\ c \in Range(skipped) <=> (c \in OptionalClients /\ ~fs0[c].dir)
        /\ c \in Range(skipped) =>
              /\ fs[c] = fs0[c]
              /\ c \notin Range(installed_to) \cup Range(failed)
        /\ c \notin Range(skipped) =>
              /\ c \in Range(installed_to) \cup Range(failed)
              /\ c \in Range(installed_to) =>
                    /\ fs[c].dir
                    /\ fs[c].file.kind = "object"
                    /\ Count(c, fs[c].file, server_name) >= 1

\* C9 witness: a finished run that skipped an optional client, installed an
\* optional client whose directory existed, and installed a client whose
\* directory it had to create.
C9_Witness ==
    /\ pc = "finished"
    /\ skipped # <<>>
    /\ \E c \in Range(installed_to) : c \in OptionalClients /\ fs0[c].dir
    /\ \E c \in Range(installed_to) : ~fs0[c].dir /\ fs[c].dir

====
